---- MODULE Spec2Model ----
(***************************************************************************)
(* Model of saic_client_tosate/ws_api.py: the session of SaicApi (cookies, *)
(* uid, token, token_expiration), the dispatcher operations that obtain    *)
(* their token through get_token, login, and the retry loop of             *)
(* send_vehicle_ctrl_cmd_with_retry.  The program is sequential: one call  *)
(* of the API is in progress at a time and pc is its position.             *)
(***************************************************************************)
EXTENDS Integers, Sequences, FiniteSets, TLC

\* The clock runs from 0 to MaxTime.
MaxTime == 6

\* while ... retry < 3
MAX_ATTEMPTS == 3

\* time.sleep(float(2))
RETRY_DELAY == 2

\* Python's None, for the string-valued fields.
None == "None"

\* self.token_expiration = None: no expiration time is stored.
NoExpiration == -1

\* Tokens, uids, cookie jars and event ids the server may answer with.
Tokens == {"", "tokA", "tokB"}
Uids == {"uidA"}
CookieJars == {{}, {"c1"}}
EventIds == {"ev1", "ev2"}
ExpirationTimes == 0..MaxTime

CtrlOps == {"lock_vehicle", "unlock_vehicle", "start_rear_window_heat", "stop_rear_window_heat"}
QueryOps == {"get_vehicle_status", "get_charging_status", "get_message_list"}
DispatcherOps == CtrlOps \cup QueryOps \cup {"set_alarm_switches"}

VARIABLES
    cookies,            \* self.cookies ({} models None: no cookie is sent)
    uid,                \* self.uid
    token,              \* self.token
    token_expiration,   \* self.token_expiration
    now,                \* datetime.datetime.now()
    pc,                 \* position of the call in progress
    op,                 \* the API method in progress (or last called)
    event_id,           \* event_id argument of the dispatcher call in progress
    msg_uid,            \* uid argument evaluated for initialize_message
    msg_token,          \* value returned by get_token for initialize_message
    retry,              \* retry counter of send_vehicle_ctrl_cmd_with_retry
    rsp,                \* last decoded response (vehicle_control_cmd_rsp_msg)
    sent,               \* requests posted and delays slept during the call
    last_request,       \* the message posted last, with all its fields
    logging_in_rsp,     \* the decoded response of the last login of the call
    outcome,            \* how the call ended
    ret,                \* the value the call returned to its caller
    expiredAtEntry,     \* was the token expired when the dispatcher call began
    callStart,          \* Len(sent) when the dispatcher call began
    http_error,         \* did the last requests.post of the call raise
    received_cookies,   \* every cookie a response has carried so far
    logged_in,          \* has a login succeeded since construction
    saic_user,          \* self.saic_user, a sequence of characters
    abrp_api_key,       \* AbrpApi.abrp_api_key
    abrp_user_token,    \* AbrpApi.abrp_user_token
    abrp_call           \* the last call of AbrpApi.update_abrp and how it ended

session == <<cookies, uid, token, token_expiration>>
frame == <<op, event_id, msg_uid, msg_token, retry, rsp, expiredAtEntry, callStart>>
transport == <<http_error, received_cookies>>
config == <<saic_user, abrp_api_key, abrp_user_token>>
vars == <<cookies, uid, token, token_expiration, now, pc, op, event_id, msg_uid,
          msg_token, retry, rsp, sent, last_request, logging_in_rsp, outcome, ret,
          expiredAtEntry, callStart, http_error, received_cookies, logged_in,
          saic_user, abrp_api_key, abrp_user_token, abrp_call>>

NoRsp == [kind |-> "none"]
NoRequest == [kind |-> "none"]
NoneValue == [kind |-> "None"]
NoCall == [kind |-> "none"]

\* Outcomes of one requests.post: a transport fault (connectivity failure or
\* raise_for_status, where the refused response may itself set cookies), or
\* a decoded response.
LoginResponses ==
    [fault : {FALSE}, error : {FALSE}, uid : Uids, token : Tokens,
     token_expiration : ExpirationTimes \cup {NoExpiration}, cookies : CookieJars]
    \cup [fault : {FALSE}, error : {TRUE}, uid : {""}, token : {""},
          token_expiration : {NoExpiration}, cookies : CookieJars]
    \cup [fault : {TRUE}, error : {FALSE}, uid : {""}, token : {""},
          token_expiration : {NoExpiration}, cookies : CookieJars]

CommandResponses ==
    [fault : {FALSE}, error : BOOLEAN, event_id : EventIds \cup {None}, cookies : CookieJars]
    \cup [fault : {TRUE}, error : {FALSE}, event_id : {None}, cookies : CookieJars]

Decoded(r) == [kind |-> "rsp", error |-> r.error, event_id |-> r.event_id]

\* Variants of the test of get_token: one second of grace before the token
\* counts as expired; a stored expiration always counts as expired.
ExpiredWithGrace(exp, t) == exp # NoExpiration /\ exp + 1 < t
ExpiredWhenSet(exp, t) == exp # NoExpiration

\* get_token: token_expiration is not None and get_timestamp() < now()
Expired(exp, t) == exp # NoExpiration /\ exp < t

InitSession ==
    /\ cookies = {}
    /\ uid = ""
    /\ token = ""
    /\ token_expiration = NoExpiration
    /\ now = 0
    /\ pc = "idle"
    /\ op = "none"
    /\ event_id = None
    /\ msg_uid = ""
    /\ msg_token = ""
    /\ retry = 0
    /\ rsp = NoRsp
    /\ sent = <<>>
    /\ last_request = NoRequest
    /\ logging_in_rsp = NoRsp
    /\ outcome = "none"
    /\ ret = NoneValue
    /\ expiredAtEntry = FALSE
    /\ callStart = 0
    /\ http_error = FALSE
    /\ received_cookies = {}
    /\ logged_in = FALSE

\* A SaicApi for the user "abc" and an AbrpApi with both credentials.
Init ==
    /\ InitSession
    /\ saic_user = <<"a", "b", "c">>
    /\ abrp_api_key = "key"
    /\ abrp_user_token = "tok"
    /\ abrp_call = NoCall

\* Time passes.
Tick ==
    /\ pc # "exited"
    /\ now < MaxTime
    /\ now' = now + 1
    /\ UNCHANGED <<session, pc, frame, sent, last_request, logging_in_rsp, outcome, ret,
                   transport, logged_in, config, abrp_call>>

\* Fields of the outgoing message that depend on the method.
ApplicationId(o) ==
    CASE o = "login" -> "501"
      [] o = "set_alarm_switches" -> "521"
      [] o = "get_vehicle_status" -> "511"
      [] o \in CtrlOps -> "510"
      [] o = "get_charging_status" -> "516"
      [] o = "get_message_list" -> "531"

\* rvc_req_type: b'\x01', b'\x02', b'\x20', as numbers.
RvcReqType(o) ==
    CASE o = "lock_vehicle" -> 1
      [] o = "unlock_vehicle" -> 2
      [] o \in {"start_rear_window_heat", "stop_rear_window_heat"} -> 32
      [] OTHER -> 0

\* rvc_params: the ordered <<param_id, param_value>> pairs.
RvcParams(o) ==
    CASE o = "lock_vehicle" -> <<>>
      [] o = "unlock_vehicle" -> << <<4, 0>>, <<5, 0>>, <<6, 0>>, <<7, 3>>, <<255, 0>> >>
      [] o = "start_rear_window_heat" -> << <<23, 1>>, <<255, 0>> >>
      [] o = "stop_rear_window_heat" -> << <<23, 0>>, <<255, 0>> >>
      [] OTHER -> <<>>

\* The event id of a message body that initialize_message has stamped and
\* nothing has overwritten: no correlation id.
InitialEventId == None

\* if event_id is not None: body.event_id = event_id
BodyEventId(ev) == IF ev # None THEN ev ELSE InitialEventId

\* UID_INIT = '0000000000000000000000000000000000000000000000000#'
UID_INIT == [i \in 1..50 |-> IF i < 50 THEN "0" ELSE "#"]

\* s[n:] of Python, for n >= 0: empty when n is past the end.
SliceFrom(s, n) == IF n >= Len(s) THEN <<>> ELSE SubSeq(s, n + 1, Len(s))

\* Variant that puts the padding after the user name.
LoginIdentifierPaddedRight(user) == user \o SliceFrom(UID_INIT, Len(user))

\* UID_INIT[len(self.saic_user):] + self.saic_user
LoginIdentifier(user) == SliceFrom(UID_INIT, Len(user)) \o user

\* The login message: the login identifier as uid, no token
\* (cast(str, None)), posted with self.cookies.
LoginRequest ==
    [kind |-> "request", app |-> ApplicationId("login"),
     uid |-> LoginIdentifier(saic_user), token |-> None,
     event_id |-> InitialEventId, cookies |-> cookies]

\* Variant in which a retried control command is posted without its
\* parameters.
CommandRequestRetriedBare ==
    [kind |-> "request", app |-> ApplicationId(op), uid |-> msg_uid,
     token |-> msg_token, event_id |-> BodyEventId(event_id),
     rvc_req_type |-> RvcReqType(op),
     rvc_params |-> IF retry >= 1 THEN <<>> ELSE RvcParams(op),
     cookies |-> cookies]

\* The message of a dispatcher operation, as encoded and posted.
CommandRequest ==
    [kind |-> "request", app |-> ApplicationId(op), uid |-> msg_uid,
     token |-> msg_token, event_id |-> BodyEventId(event_id),
     rvc_req_type |-> RvcReqType(op), rvc_params |-> RvcParams(op),
     cookies |-> cookies]

\* What sent keeps of a posted message.
LogEntry(m) ==
    IF m.app = ApplicationId("login")
    THEN [kind |-> m.kind, app |-> m.app, event_id |-> m.event_id]
    ELSE [kind |-> m.kind, app |-> m.app, event_id |-> m.event_id,
          rvc_req_type |-> m.rvc_req_type, rvc_params |-> m.rvc_params]

\* Variant of send_request that takes the cookies of the response before
\* raise_for_status.
send_requestStoresCookiesFirst(r) ==
    /\ http_error' = r.fault
    /\ cookies' = r.cookies
    /\ received_cookies' =
           IF r.fault THEN received_cookies ELSE received_cookies \cup r.cookies

\* send_request: a transport fault raises before self.cookies is assigned.
send_request(r) ==
    /\ http_error' = r.fault
    /\ cookies' = IF r.fault THEN cookies ELSE r.cookies
    /\ received_cookies' =
           IF r.fault THEN received_cookies ELSE received_cookies \cup r.cookies

\* Variant of login that stores the fields of the response before it looks at
\* the error message.
loginStoresBeforeErrorTest(r) ==
    /\ sent' = Append(sent, LogEntry(LoginRequest))
    /\ last_request' = LoginRequest
    /\ send_request(r)
    /\ logging_in_rsp' =
           IF r.fault THEN NoRsp
           ELSE [kind |-> "rsp", error |-> r.error, uid |-> r.uid, token |-> r.token,
                 token_expiration |-> r.token_expiration]
    /\ logged_in' = (logged_in \/ ~r.fault)
    /\ IF r.fault
       THEN UNCHANGED <<uid, token, token_expiration>>
       ELSE /\ uid' = r.uid
            /\ token' = r.token
            /\ token_expiration' =
                   IF r.token_expiration # NoExpiration
                   THEN r.token_expiration
                   ELSE token_expiration

\* login: post the login message, then store uid, token and (if the
\* response has one) token_expiration, unless the response has an error.
login(r) ==
    /\ sent' = Append(sent, LogEntry(LoginRequest))
    /\ last_request' = LoginRequest
    /\ send_request(r)
    /\ logging_in_rsp' =
           IF r.fault THEN NoRsp
           ELSE [kind |-> "rsp", error |-> r.error, uid |-> r.uid, token |-> r.token,
                 token_expiration |-> r.token_expiration]
    /\ logged_in' = (logged_in \/ ~(r.fault \/ r.error))
    /\ IF r.fault \/ r.error
       THEN UNCHANGED <<uid, token, token_expiration>>
       ELSE /\ uid' = r.uid
            /\ token' = r.token
            /\ token_expiration' =
                   IF r.token_expiration # NoExpiration
                   THEN r.token_expiration
                   ELSE token_expiration

\* Variant in which the retry loop catches the HTTPError of a retried
\* attempt and carries on.
RaiseCaughtByRetryLoop(exc) ==
    IF exc = "HTTPError" /\ pc = "send" /\ op \in CtrlOps /\ retry >= 1
    THEN pc' = "loop" /\ UNCHANGED <<outcome, ret>>
    ELSE pc' = "idle" /\ outcome' = exc /\ ret' = NoneValue

\* How a call ends: an exception that reaches the caller of the API, the
\* SystemExit of login, or a return.
Raise(exc) == pc' = "idle" /\ outcome' = exc /\ ret' = NoneValue
Exit == pc' = "exited" /\ outcome' = "SystemExit" /\ ret' = NoneValue
Return(v) == pc' = "idle" /\ outcome' = "returned" /\ ret' = v

\* The stored expiration is set and already in the past.
PastExpiration == token_expiration # NoExpiration /\ token_expiration < now

\* A method of SaicApi is called.
Call(o, ev) ==
    /\ pc = "idle"
    /\ op' = o
    /\ event_id' = ev
    /\ msg_uid' = ""
    /\ msg_token' = ""
    /\ retry' = 0
    /\ rsp' = NoRsp
    /\ sent' = <<>>
    /\ last_request' = NoRequest
    /\ logging_in_rsp' = NoRsp
    /\ outcome' = "running"
    /\ ret' = NoneValue
    /\ expiredAtEntry' = PastExpiration
    /\ callStart' = 0
    /\ http_error' = FALSE
    /\ pc' = IF o = "login" THEN "login" ELSE "get_token"
    /\ UNCHANGED <<session, now, received_cookies, logged_in, config, abrp_call>>

login_call == Call("login", None)
set_alarm_switches == Call("set_alarm_switches", None)
get_vehicle_status == \E ev \in {None, "ev1"} : Call("get_vehicle_status", ev)
get_charging_status == \E ev \in {None, "ev1"} : Call("get_charging_status", ev)
get_message_list == \E ev \in {None, "ev1"} : Call("get_message_list", ev)
lock_vehicle == Call("lock_vehicle", None)
unlock_vehicle == Call("unlock_vehicle", None)
start_rear_window_heat == Call("start_rear_window_heat", None)
stop_rear_window_heat == Call("stop_rear_window_heat", None)

\* login() called by the user of the API.
LoginStep ==
    /\ pc = "login"
    /\ \E r \in LoginResponses :
          /\ login(r)
          /\ IF r.fault THEN Raise("HTTPError")
             ELSE IF r.error THEN Exit
             ELSE Return([kind |-> "login_rsp", token |-> r.token])
    /\ UNCHANGED <<now, frame, config, abrp_call>>

\* Variant of get_token that returns the token it held before it logged in
\* again.
get_token_stale ==
    /\ pc = "get_token"
    /\ msg_uid' = uid
    /\ IF Expired(token_expiration, now)
       THEN \E r \in LoginResponses :
              /\ login(r)
              /\ IF r.fault THEN Raise("HTTPError") /\ msg_token' = msg_token
                 ELSE IF r.error THEN Exit /\ msg_token' = msg_token
                 ELSE /\ pc' = "send"
                      /\ msg_token' = token
                      /\ UNCHANGED <<outcome, ret>>
       ELSE /\ pc' = "send"
            /\ msg_token' = token
            /\ UNCHANGED <<session, sent, last_request, logging_in_rsp, outcome, ret,
                           transport, logged_in>>
    /\ UNCHANGED <<now, op, event_id, retry, rsp, expiredAtEntry, callStart, config,
                   abrp_call>>

\* initialize_message(self.uid, self.get_token(), ...): self.uid is
\* evaluated first, then get_token, which logs in again if the stored
\* expiration has passed and returns self.token.
get_token ==
    /\ pc = "get_token"
    /\ msg_uid' = uid
    /\ IF Expired(token_expiration, now)
       THEN \E r \in LoginResponses :
              /\ login(r)
              /\ IF r.fault THEN Raise("HTTPError") /\ msg_token' = msg_token
                 ELSE IF r.error THEN Exit /\ msg_token' = msg_token
                 ELSE /\ pc' = "send"
                      /\ msg_token' = token'
                      /\ UNCHANGED <<outcome, ret>>
       ELSE /\ pc' = "send"
            /\ msg_token' = token
            /\ UNCHANGED <<session, sent, last_request, logging_in_rsp, outcome, ret,
                           transport, logged_in>>
    /\ UNCHANGED <<now, op, event_id, retry, rsp, expiredAtEntry, callStart, config,
                   abrp_call>>

\* Variant in which the queries raise on an error payload, as
\* set_alarm_switches does.
AfterResponseRaisingOnError(r) ==
    IF op \in CtrlOps
    THEN /\ retry' = retry + 1
         /\ pc' = "loop"
         /\ UNCHANGED <<outcome, ret>>
    ELSE /\ retry' = retry
         /\ IF r.error THEN Raise("ValueError")
            ELSE IF op = "set_alarm_switches" THEN Return(NoneValue)
            ELSE Return(Decoded(r))

\* What the operation does with the decoded response: a control command
\* hands it to send_vehicle_ctrl_cmd_with_retry (retry = 1 after the first
\* call, retry += 1 in the loop), set_alarm_switches raises ValueError on an
\* error message and returns nothing otherwise, a query returns it.
AfterResponse(r) ==
    IF op \in CtrlOps
    THEN /\ retry' = retry + 1
         /\ pc' = "loop"
         /\ UNCHANGED <<outcome, ret>>
    ELSE /\ retry' = retry
         /\ IF op = "set_alarm_switches"
            THEN IF r.error THEN Raise("ValueError")
                 ELSE Return(NoneValue)
            ELSE Return(Decoded(r))

\* The rest of a dispatcher operation: encode, send_request, decode, and
\* what the operation does with the decoded response.
dispatch ==
    /\ pc = "send"
    /\ sent' = Append(sent, LogEntry(CommandRequest))
    /\ last_request' = CommandRequest
    /\ \E r \in CommandResponses :
          /\ send_request(r)
          /\ IF r.fault
             THEN Raise("HTTPError") /\ UNCHANGED <<rsp, retry>>
             ELSE /\ rsp' = Decoded(r)
                  /\ AfterResponse(r)
    /\ UNCHANGED <<uid, token, token_expiration, now, op, event_id, msg_uid,
                   msg_token, logging_in_rsp, expiredAtEntry, callStart, logged_in,
                   config, abrp_call>>

\* Variant of the delay that sleeps a second time.
sleepTwice(secs) ==
    /\ now + 2 * secs <= MaxTime
    /\ now' = now + 2 * secs
    /\ sent' = sent \o <<[kind |-> "sleep", secs |-> secs],
                         [kind |-> "sleep", secs |-> secs]>>

\* time.sleep(secs)
sleep(secs) ==
    /\ now + secs <= MaxTime
    /\ now' = now + secs
    /\ sent' = Append(sent, [kind |-> "sleep", secs |-> secs])

\* The while loop of send_vehicle_ctrl_cmd_with_retry, with its test and the
\* event id it passes on: sleep, then call send_vehicle_control_command
\* again; or fall off the end of the method, which returns nothing.
RetryLoop(again, ev) ==
    /\ pc = "loop"
    /\ IF again
       THEN /\ sleep(RETRY_DELAY)
            /\ event_id' = ev
            /\ expiredAtEntry' =
                   (token_expiration # NoExpiration /\ token_expiration < now')
            /\ callStart' = Len(sent')
            /\ pc' = "get_token"
            /\ UNCHANGED <<outcome, ret>>
       ELSE /\ Return(NoneValue)
            /\ UNCHANGED <<now, sent, event_id, expiredAtEntry, callStart>>
    /\ UNCHANGED <<session, op, msg_uid, msg_token, retry, rsp, last_request,
                   logging_in_rsp, transport, logged_in, config, abrp_call>>

\* Variants of the loop: one attempt too many; the event id of the response
\* is not passed on; the error message of the response is not tested.
retryLoopOneTooMany == RetryLoop(rsp.error /\ retry <= MAX_ATTEMPTS, rsp.event_id)
retryLoopDropsEventId == RetryLoop(rsp.error /\ retry < MAX_ATTEMPTS, event_id)
retryLoopIgnoresError == RetryLoop(retry < MAX_ATTEMPTS, rsp.event_id)

\* while error_message is not None and retry < 3:
\*     sleep; event_id = rsp.body.event_id; send again
send_vehicle_ctrl_cmd_with_retry ==
    RetryLoop(rsp.error /\ retry < MAX_ATTEMPTS, rsp.event_id)

Next ==
    \/ Tick
    \/ login_call
    \/ set_alarm_switches
    \/ get_vehicle_status
    \/ get_charging_status
    \/ get_message_list
    \/ lock_vehicle
    \/ unlock_vehicle
    \/ start_rear_window_heat
    \/ stop_rear_window_heat
    \/ LoginStep
    \/ get_token
    \/ dispatch
    \/ send_vehicle_ctrl_cmd_with_retry

Spec == Init /\ [][Next]_vars

----------------------------------------------------------------------------
(* AbrpApi.update_abrp *)

\* The arguments of update_abrp: a vehicle status response, or None, whose
\* GPS position, way point and position may each be missing, and a charging
\* status response, or None.
Coordinates == {-1, 0, 1, 2}
Positions == [kind : {"position"}, latitude : Coordinates, longitude : Coordinates]
WayPoints == [kind : {"way_point"}, position : Positions \cup {NoneValue}]
GpsPositions == [kind : {"gps_position"}, way_point : WayPoints \cup {NoneValue}]
VehicleStatuses ==
    [kind : {"vehicle_status"}, gps_position : GpsPositions \cup {NoneValue}]
    \cup {NoneValue}
ChargeStatuses == {[kind |-> "charge_status"], NoneValue}

\* Outcomes of requests.get and raise_for_status.
UploadOutcomes == {"ok", "connection_failure", "bad_status"}

\* Variant of the test of update_abrp that lets the zero fix through.
ShouldForwardZeroFix(vs, cs) ==
    /\ abrp_api_key # None
    /\ abrp_user_token # None
    /\ vs # NoneValue
    /\ vs.gps_position # NoneValue
    /\ vs.gps_position.way_point # NoneValue
    /\ vs.gps_position.way_point.position # NoneValue
    /\ vs.gps_position.way_point.position.latitude >= 0
    /\ vs.gps_position.way_point.position.longitude >= 0
    /\ cs # NoneValue

\* The test of update_abrp.
ShouldForward(vs, cs) ==
    /\ abrp_api_key # None
    /\ abrp_user_token # None
    /\ vs # NoneValue
    /\ vs.gps_position # NoneValue
    /\ vs.gps_position.way_point # NoneValue
    /\ vs.gps_position.way_point.position # NoneValue
    /\ vs.gps_position.way_point.position.latitude > 0
    /\ vs.gps_position.way_point.position.longitude > 0
    /\ cs # NoneValue

\* requests.get raises on a connectivity failure, raise_for_status raises on
\* a status that is not 2xx; nothing in update_abrp catches either.
AfterUpload(net) ==
    CASE net = "ok" -> "returned"
      [] net = "connection_failure" -> "ConnectionError"
      [] net = "bad_status" -> "HTTPError"

saic == <<cookies, uid, token, token_expiration, now, pc, op, event_id, msg_uid,
          msg_token, retry, rsp, sent, last_request, logging_in_rsp, outcome, ret,
          expiredAtEntry, callStart, http_error, received_cookies, logged_in>>

\* update_abrp(vehicle_status, charge_status): one requests.get if the test
\* passes, none otherwise.
update_abrp ==
    /\ \E vs \in VehicleStatuses, cs \in ChargeStatuses :
          IF ShouldForward(vs, cs)
          THEN \E net \in UploadOutcomes :
                 abrp_call' = [kind |-> "call", vehicle_status |-> vs,
                               charge_status |-> cs, requests |-> 1,
                               outcome |-> AfterUpload(net)]
          ELSE abrp_call' = [kind |-> "call", vehicle_status |-> vs,
                             charge_status |-> cs, requests |-> 0,
                             outcome |-> "returned"]
    /\ UNCHANGED <<saic, config>>

\* AbrpApi(abrp_api_key, abrp_user_token), with either credential possibly
\* None.
InitAbrp ==
    /\ InitSession
    /\ saic_user = <<"a", "b", "c">>
    /\ abrp_api_key \in {None, "key"}
    /\ abrp_user_token \in {None, "tok"}
    /\ abrp_call = NoCall

NextAbrp == update_abrp

SpecAbrp == InitAbrp /\ [][NextAbrp]_vars

----------------------------------------------------------------------------
(* login, for any user name *)

Repeat(c, n) == [i \in 1..n |-> c]

\* User names shorter than UID_INIT, of its length less one, of its length,
\* and longer.
Usernames ==
    {Repeat("x", n) : n \in {0, 1, 2, 48, 49, 50, 51, 52}}
    \cup {<<"a", "b", "c">>, <<"0", "7">>, <<"#">>}

\* SaicApi(saic_uri, saic_user, saic_password)
InitLogin ==
    /\ InitSession
    /\ saic_user \in Usernames
    /\ abrp_api_key = "key"
    /\ abrp_user_token = "tok"
    /\ abrp_call = NoCall

NextLogin == login_call \/ LoginStep

SpecLogin == InitLogin /\ [][NextLogin]_vars

----------------------------------------------------------------------------
(* Vocabulary of the properties *)

\* What the dispatcher call in progress has posted so far.
CallSent == SubSeq(sent, callStart + 1, Len(sent))

IsLogin(e) == e.kind = "request" /\ e.app = "501"
IsControlCommand(e) == e.kind = "request" /\ e.app = "510"

Count(seq, P(_)) == Cardinality({i \in 1..Len(seq) : P(seq[i])})

\* The step posts a login message and the response has an error payload.
LoginErrorStep ==
    /\ Len(sent') = Len(sent) + 1
    /\ IsLogin(sent'[Len(sent')])
    /\ logging_in_rsp'.kind = "rsp"
    /\ logging_in_rsp'.error

----------------------------------------------------------------------------
(* Session: login and get_token *)

\* C1: a dispatcher operation (status query, control command, charging
\* query, message list, alarm switches) that is invoked when token_expiration
\* is set and in the past posts exactly one login request, and posts it
\* before its own request: once get_token has run, the first message of the
\* call is the login and no other message of the call is a login.
C1_OneLoginBeforeRequest ==
    (op \in DispatcherOps /\ expiredAtEntry) =>
        IF pc = "get_token"
        THEN CallSent = <<>>
        ELSE /\ Len(CallSent) >= 1
             /\ IsLogin(CallSent[1])
             /\ Count(CallSent, IsLogin) = 1
             /\ Len(CallSent) <= 2
             /\ Len(CallSent) = 2 => CallSent[2].app = ApplicationId(op)

\* C1 witness: a query invoked with an expired token has returned after a
\* login followed by its own request.
C1_Witness ==
    /\ op \in QueryOps
    /\ expiredAtEntry
    /\ pc = "idle"
    /\ outcome = "returned"
    /\ Len(CallSent) = 2
    /\ IsLogin(CallSent[1])
    /\ CallSent[2].app = ApplicationId(op)

\* C2: when token_expiration is absent or lies in the future, get_token
\* posts no login request and leaves token, uid and token_expiration as
\* they are.
C2_NoLoginWhileValid ==
    [][(pc = "get_token" /\ (token_expiration = NoExpiration \/ token_expiration > now))
        => (sent' = sent /\ UNCHANGED <<token, uid, token_expiration>>)]_vars

\* C2 witness: get_token has returned the stored token of a session whose
\* expiration lies in the future, and the call has posted nothing.
C2_Witness ==
    /\ pc = "send"
    /\ token_expiration # NoExpiration
    /\ token_expiration > now
    /\ ~expiredAtEntry
    /\ CallSent = <<>>
    /\ msg_token = token
    /\ token # ""

\* C3: whenever get_token returns a token, the stored token_expiration is
\* absent or not in the past at that moment, whatever the login response was.
C3_ReturnedTokenValid ==
    [][(pc = "get_token" /\ pc' = "send")
        => (token_expiration' = NoExpiration \/ token_expiration' >= now')]_vars

\* C4: after a successful login the stored token and the stored expiration
\* are those of that login response; nothing of an earlier login is left.
C4_LoginOverwrites ==
    (logging_in_rsp.kind = "rsp" /\ ~logging_in_rsp.error) =>
        /\ token = logging_in_rsp.token
        /\ token_expiration = logging_in_rsp.token_expiration

\* C5: a login whose response has an error payload aborts the operation
\* (SystemExit): token, uid and token_expiration are as before the login
\* call, and nothing more is posted after it.
C5_LoginErrorAborts ==
    [][/\ LoginErrorStep =>
            (UNCHANGED <<token, uid, token_expiration>> /\ outcome' = "SystemExit")
       /\ outcome = "SystemExit" => sent' = sent]_vars

\* C5 witness: a session that was logged in has been aborted by a login
\* with an error payload, made by get_token for a dispatcher operation.
C5_Witness ==
    /\ outcome = "SystemExit"
    /\ op \in DispatcherOps
    /\ logging_in_rsp.kind = "rsp"
    /\ logging_in_rsp.error
    /\ token # ""
    /\ IsLogin(sent[Len(sent)])
----------------------------------------------------------------------------
(* Retry loop of the actuation commands *)

\* C6: for one actuation command, whatever the server answers, at most 3
\* control-command requests are posted.
C6_AtMostThreeAttempts ==
    op \in CtrlOps => Count(sent, IsControlCommand) <= 3

\* C6 witness: an actuation command has returned after 3 control-command
\* requests, all answered with an error payload.
C6_Witness ==
    /\ op \in CtrlOps
    /\ pc = "idle"
    /\ outcome = "returned"
    /\ Count(sent, IsControlCommand) = 3
    /\ rsp.error

\* C7: the control-command message of the 2nd and of the 3rd attempt carries
\* in its body the event id of the response that came just before it, also
\* when that response has no event id.
C7_RetryCarriesPrecedingEventId ==
    [][(pc = "send" /\ op \in CtrlOps /\ retry >= 1 /\ Len(sent') = Len(sent) + 1)
        => (IsControlCommand(last_request') /\ last_request'.event_id = rsp.event_id)]_vars

\* C7 witness: three attempts were posted; the first without event id, the
\* second with the event id ev1 of the first response, the third with the
\* event id ev2 of the second response.
C7_Witness ==
    /\ op \in CtrlOps
    /\ pc = "loop"
    /\ retry = 3
    /\ Len(sent) = 5
    /\ sent[1].event_id = None
    /\ sent[3].event_id = "ev1"
    /\ sent[5].event_id = "ev2"
    /\ last_request.event_id = "ev2"

\* C8: once a response to a control command has no error payload, no
\* further control-command request of that actuation command is posted; in
\* particular no 2nd attempt follows a 1st response without error payload.
C8_NoRetryAfterSuccess ==
    [][(op \in CtrlOps /\ rsp.kind = "rsp" /\ ~rsp.error)
        => Count(sent', IsControlCommand) <= Count(sent, IsControlCommand)]_vars

\* C8 witness: an actuation command has returned after a single request
\* whose response had no error payload.
C8_Witness ==
    /\ op \in CtrlOps
    /\ pc = "idle"
    /\ outcome = "returned"
    /\ retry = 1
    /\ rsp.kind = "rsp"
    /\ ~rsp.error
    /\ Count(sent, IsControlCommand) = 1

\* C9: when the 1st and the 2nd response carry an error payload and the 3rd
\* does not, the retry loop makes exactly 2 retries and returns the 3rd
\* response, which has no error payload, to its caller.
C9_ReturnsThirdResponse ==
    (op \in CtrlOps /\ pc = "idle" /\ retry = 3 /\ rsp.kind = "rsp" /\ ~rsp.error) =>
        /\ Count(sent, IsControlCommand) = 3
        /\ outcome = "returned"
        /\ ret = rsp
        /\ ~ret.error

\* C10: when all 3 attempts are answered with an error payload, the retry
\* loop does not raise and returns the 3rd response, with its error, to its
\* caller.
C10_ReturnsLastErrorResponse ==
    (op \in CtrlOps /\ pc = "idle" /\ retry = 3 /\ rsp.kind = "rsp" /\ rsp.error) =>
        /\ outcome = "returned"
        /\ ret = rsp
        /\ ret.error
----------------------------------------------------------------------------
(* Faults *)

\* C11: a transport fault (connectivity failure or non-2xx status) on any
\* attempt of an actuation command ends the call at once with the fault:
\* the retry loop does not catch it and the faulted request is the last
\* thing the call does, whatever the attempt count.
C11_TransportFaultAborts ==
    (op \in CtrlOps /\ http_error) =>
        /\ pc = "idle"
        /\ outcome = "HTTPError"
        /\ sent[Len(sent)].kind = "request"

\* C11 witness: the 2nd attempt of an actuation command met a transport
\* fault after the 1st was answered with an error payload; the call is over.
C11_Witness ==
    /\ op \in CtrlOps
    /\ http_error
    /\ outcome = "HTTPError"
    /\ retry = 1
    /\ rsp.error
    /\ Count(sent, IsControlCommand) = 2
    /\ IsControlCommand(last_request)

\* The step is a dispatcher operation receiving a response with an error
\* payload.
ErrorPayloadStep ==
    /\ pc = "send"
    /\ pc' # "send"
    /\ ~http_error'
    /\ rsp'.error

\* C12 as stated: for every operation other than login, a decoded response
\* with an error payload is not fatal; the operation raises nothing because
\* of it and completes normally.
C12_ErrorPayloadNeverFatal ==
    (op \in DispatcherOps \ CtrlOps /\ pc = "idle" /\ ~http_error
        /\ rsp.kind = "rsp" /\ rsp.error)
    => outcome = "returned"

\* C12 amended: a decoded response with an error payload is not fatal for
\* the queries (status, charging, message list), which return it with the
\* error as data, nor for send_vehicle_control_command, which hands it to the
\* retry loop; set_alarm_switches raises ValueError on it.
C12_ErrorPayloadIsDataExceptAlarm ==
    [][ErrorPayloadStep =>
         CASE op \in QueryOps ->
                  outcome' = "returned" /\ ret' = rsp' /\ ret'.error
           [] op \in CtrlOps ->
                  pc' = "loop" /\ outcome' = "running"
           [] op = "set_alarm_switches" ->
                  pc' = "idle" /\ outcome' = "ValueError"]_vars

\* C12 witness: a query has returned a response that carries an error.
C12_Witness ==
    /\ op \in QueryOps
    /\ pc = "idle"
    /\ outcome = "returned"
    /\ ret.kind = "rsp"
    /\ ret.error
----------------------------------------------------------------------------
(* Telemetry upload *)

\* Latitude and longitude of a vehicle status, when it has a position.
HasPosition(vs) ==
    /\ vs # NoneValue
    /\ vs.gps_position # NoneValue
    /\ vs.gps_position.way_point # NoneValue
    /\ vs.gps_position.way_point.position # NoneValue
Latitude(vs) == vs.gps_position.way_point.position.latitude
Longitude(vs) == vs.gps_position.way_point.position.longitude

\* C13: a failure of the upload (transport failure or non-2xx status) is
\* never propagated to the caller of update_abrp and never retried:
\* update_abrp sends at most one request and returns normally whatever the
\* outcome of that request.
C13_UploadFailureNotPropagated ==
    abrp_call.kind = "call" =>
        /\ abrp_call.requests <= 1
        /\ abrp_call.outcome = "returned"

\* C14 as stated: update_abrp performs no network call when latitude <= 0,
\* longitude <= 0, the GPS position is absent or either response is absent,
\* and performs the upload whenever both responses and the GPS position are
\* present and latitude and longitude are strictly positive.
C14_ForwardIffValidFix ==
    abrp_call.kind = "call" =>
        (abrp_call.requests = 1 <=>
            /\ abrp_call.charge_status # NoneValue
            /\ HasPosition(abrp_call.vehicle_status)
            /\ Latitude(abrp_call.vehicle_status) > 0
            /\ Longitude(abrp_call.vehicle_status) > 0)

\* C14 amended: no network call when latitude <= 0, longitude <= 0, the GPS
\* position (or its way point or position) is absent or either response is
\* absent; the upload is performed whenever both responses and the position
\* are present, latitude and longitude are strictly positive, and the API
\* key and the user token are both set.
C14_ForwardIffValidFixAndCredentials ==
    abrp_call.kind = "call" =>
        /\ abrp_call.requests \in {0, 1}
        /\ abrp_call.requests = 1 <=>
            /\ abrp_api_key # None
            /\ abrp_user_token # None
            /\ abrp_call.charge_status # NoneValue
            /\ HasPosition(abrp_call.vehicle_status)
            /\ Latitude(abrp_call.vehicle_status) > 0
            /\ Longitude(abrp_call.vehicle_status) > 0

\* C14 witness: an upload was made for a fix with positive latitude and
\* longitude.
C14_Witness ==
    /\ abrp_call.kind = "call"
    /\ abrp_call.requests = 1
    /\ Latitude(abrp_call.vehicle_status) > 0
    /\ Longitude(abrp_call.vehicle_status) > 0
    /\ abrp_call.charge_status # NoneValue
----------------------------------------------------------------------------
(* Retry sequence: delay, parameters, re-login *)

IsSleep(e) == e.kind = "sleep"

\* The step is a delay of the retry loop.
SleepStep == Len(sent') > Len(sent) /\ IsSleep(sent'[Len(sent')])

\* The delays of the log s lie between the attempts: each is a delay of 2,
\* directly follows a control-command request, is followed by a request (the
\* re-login of the next attempt or its control command), and whatever
\* follows a control-command request is a delay, so that there is exactly
\* one delay between two consecutive control-command requests.
DelaysBetweenAttempts(s) ==
    /\ \A i \in 1..Len(s) :
          IsSleep(s[i]) =>
              /\ s[i].secs = 2
              /\ i > 1
              /\ IsControlCommand(s[i - 1])
              /\ i < Len(s) => s[i + 1].kind = "request"
    /\ \A i \in 1..(Len(s) - 1) : IsControlCommand(s[i]) => IsSleep(s[i + 1])

\* C15: between two consecutive attempts of one actuation command the retry
\* loop waits exactly 2 time units, once: the delay step is taken after the
\* erroring response of a control command has been received and advances the
\* clock by 2; it comes before the next control-command request and before
\* the re-login of that attempt; there is no delay before the 1st attempt
\* and none after the last one (a call that has ended, or is waiting in the
\* loop, has no delay at the end of its log: a log ends with a delay only
\* while the next attempt is fetching its token or about to post).
C15_ExactlyOneDelayBetweenAttempts ==
    [][/\ SleepStep =>
            /\ op \in CtrlOps
            /\ pc = "loop"
            /\ rsp.kind = "rsp"
            /\ rsp.error
            /\ IsControlCommand(sent[Len(sent)])
            /\ Len(sent') = Len(sent) + 1
            /\ now' = now + 2
            /\ pc' = "get_token"
       /\ Len(sent') > Len(sent) => DelaysBetweenAttempts(sent')
       /\ (Len(sent') > 0 /\ IsSleep(sent'[Len(sent')]))
              => pc' \in {"get_token", "send"}
      ]_vars

\* C15 witness: three attempts with one delay after the first and one after
\* the second, the second attempt preceded by its re-login.
C15_Witness ==
    /\ op \in CtrlOps
    /\ pc = "idle"
    /\ outcome = "returned"
    /\ Len(sent) = 6
    /\ IsControlCommand(sent[1])
    /\ IsSleep(sent[2])
    /\ IsLogin(sent[3])
    /\ IsControlCommand(sent[4])
    /\ IsSleep(sent[5])
    /\ IsControlCommand(sent[6])
----------------------------------------------------------------------------
(* Session: token and cookies *)

\* C16: in every state after at least one successful login the stored token
\* is non-empty, and the message a dispatcher operation is about to post
\* after a successful login carries a non-empty token, whatever tokens the
\* login responses contained.
C16_TokenNonEmptyAfterLogin ==
    logged_in =>
        /\ token # ""
        /\ (op \in DispatcherOps /\ pc = "send") => msg_token # ""

\* C17: each request made through send_request carries the cookies of the
\* responses that preceded it (every cookie received on an earlier response
\* is sent), and the first request carries none.
C17_RequestCarriesReceivedCookies ==
    [][(Len(sent') > Len(sent) /\ sent'[Len(sent')].kind = "request")
           => /\ received_cookies \subseteq last_request'.cookies
              /\ received_cookies = {} => last_request'.cookies = {}
      ]_vars
----------------------------------------------------------------------------
(* Login identifier *)

\* The identifier of the login message that was posted last.
PostedLoginIdentifier == last_request.uid
LoginPosted == last_request.kind = "request" /\ IsLogin(last_request)

\* C18 as stated: for every user name the login identifier has exactly the
\* length of UID_INIT and consists of leading zero characters followed by
\* the user name; a user name shorter than UID_INIT is padded with zero
\* characters only.
C18_FixedWidthZeroPadded ==
    LoginPosted =>
        /\ Len(PostedLoginIdentifier) = Len(UID_INIT)
        /\ Len(saic_user) <= Len(UID_INIT)
        /\ \A i \in 1..(Len(UID_INIT) - Len(saic_user)) : PostedLoginIdentifier[i] = "0"
        /\ SliceFrom(PostedLoginIdentifier, Len(UID_INIT) - Len(saic_user)) = saic_user

\* C18 amended: for a user name of n <= 49 characters the login identifier
\* has exactly the length of UID_INIT (50) and consists of 49 - n zero
\* characters, then the character '#', then the user name; for a user name
\* of 50 characters or more the identifier is the user name itself, which
\* is longer than UID_INIT from 51 characters on.
C18_PaddedWithZerosAndHash ==
    LoginPosted =>
        IF Len(saic_user) <= 49
        THEN /\ Len(PostedLoginIdentifier) = 50
             /\ \A i \in 1..(49 - Len(saic_user)) : PostedLoginIdentifier[i] = "0"
             /\ PostedLoginIdentifier[50 - Len(saic_user)] = "#"
             /\ SliceFrom(PostedLoginIdentifier, 50 - Len(saic_user)) = saic_user
        ELSE PostedLoginIdentifier = saic_user

\* C18 witness: the login of the user "abc" was posted; its identifier has
\* the length of UID_INIT and ends with the user name.
C18_Witness ==
    /\ LoginPosted
    /\ saic_user = <<"a", "b", "c">>
    /\ Len(PostedLoginIdentifier) = Len(UID_INIT)
    /\ SliceFrom(PostedLoginIdentifier, 47) = <<"a", "b", "c">>
----------------------------------------------------------------------------
(* Retry sequence: parameters *)

\* The first control-command request of the log.
FirstAttempt ==
    sent[CHOOSE i \in 1..Len(sent) :
             IsControlCommand(sent[i]) /\ \A j \in 1..(i - 1) : ~IsControlCommand(sent[j])]

\* C19: every attempt of one actuation command, the first and each retry,
\* carries the command type and the ordered parameter sequence of the first
\* attempt: for unlock the 5 parameters with ids 4, 5, 6, 7, 255 and values
\* 0, 0, 0, 3, 0 in that order, for lock no parameter and a command type
\* that is not unlock's.
C19_AttemptsCarrySameCommand ==
    op \in CtrlOps =>
        \A i \in 1..Len(sent) :
            IsControlCommand(sent[i]) =>
                /\ sent[i].rvc_req_type = FirstAttempt.rvc_req_type
                /\ sent[i].rvc_params = FirstAttempt.rvc_params
                /\ op = "unlock_vehicle" =>
                       /\ sent[i].rvc_req_type = 2
                       /\ sent[i].rvc_params =
                              << <<4, 0>>, <<5, 0>>, <<6, 0>>, <<7, 3>>, <<255, 0>> >>
                /\ op = "lock_vehicle" =>
                       /\ sent[i].rvc_req_type # 2
                       /\ sent[i].rvc_params = <<>>

\* C19 witness: an unlock that took three attempts, the third with the five
\* parameters.
C19_Witness ==
    /\ op = "unlock_vehicle"
    /\ Count(sent, IsControlCommand) = 3
    /\ IsControlCommand(sent[Len(sent)])
    /\ Len(sent[Len(sent)].rvc_params) = 5
----------------------------------------------------------------------------
(* Retry sequence: re-login *)

\* A retried attempt that found the stored expiration in the past when it
\* began.
RetryWithExpiredToken == op \in CtrlOps /\ retry >= 1 /\ expiredAtEntry

\* C20: when the token has expired in the middle of a retry sequence, the
\* next attempt first logs in again and then posts the control command with
\* the token of that login response and the event id of the preceding
\* control-command response; if the login response carries an error
\* payload, the sequence aborts (the process exits) and nothing is posted
\* after it.
C20_RetryReloginThenCommand ==
    [][/\ (RetryWithExpiredToken /\ pc = "get_token" /\ pc' # "get_token") =>
            /\ Len(sent') = Len(sent) + 1
            /\ IsLogin(sent'[Len(sent')])
            /\ LoginErrorStep => pc' = "exited"
       /\ (RetryWithExpiredToken /\ pc = "send" /\ Len(sent') > Len(sent)) =>
            /\ Len(CallSent) = 1
            /\ IsLogin(CallSent[1])
            /\ logging_in_rsp.kind = "rsp"
            /\ ~logging_in_rsp.error
            /\ IsControlCommand(sent'[Len(sent')])
            /\ last_request'.token = logging_in_rsp.token
            /\ last_request'.event_id = rsp.event_id
       /\ pc = "exited" => sent' = sent
      ]_vars

\* C20 witness: the second attempt logged in again and posted the control
\* command with the token of that login and the event id of the first
\* response.
C20_Witness ==
    /\ RetryWithExpiredToken
    /\ Len(sent) = 4
    /\ IsControlCommand(sent[1])
    /\ IsSleep(sent[2])
    /\ IsLogin(sent[3])
    /\ IsControlCommand(sent[4])
    /\ last_request.token = logging_in_rsp.token
    /\ last_request.token = "tokB"
    /\ sent[4].event_id = "ev2"
----------------------------------------------------------------------------
(* Transport fault and the session *)

\* The step posts a message and send_request raises.
FaultedRequestStep ==
    /\ Len(sent') = Len(sent) + 1
    /\ sent'[Len(sent')].kind = "request"
    /\ http_error'

\* C21: a transport fault in send_request (connectivity failure or non-2xx
\* status) leaves the session unchanged: cookies, token, uid and
\* token_expiration are after the failed request what they were before it,
\* also when the failed request is a login.
C21_FaultLeavesSessionUnchanged ==
    [][FaultedRequestStep =>
           /\ cookies' = cookies
           /\ token' = token
           /\ uid' = uid
           /\ token_expiration' = token_expiration
      ]_vars

\* C21 witness: a login failed with a transport fault in a session that
\* holds cookies, a token and an expiration from an earlier login.
C21_Witness ==
    /\ http_error
    /\ LoginPosted
    /\ outcome = "HTTPError"
    /\ logged_in
    /\ cookies = {"c1"}
    /\ token = "tokA"
    /\ uid = "uidA"
    /\ token_expiration # NoExpiration
====
